---- MODULE Spec2Model ----
(***************************************************************************)
(* Model of process_nodes.py: the node locator, the condition flattener,   *)
(* the parameter canonicalizer / node normalizer (clean_node) and the      *)
(* batch driver process_all_sources.                                       *)
(*                                                                         *)
(* Python values are tagged records:                                       *)
(*   None / JSON null   [t |-> "null"]                                     *)
(*   bool               [t |-> "bool", b |-> TRUE]                         *)
(*   int                [t |-> "int",  n |-> 1]                            *)
(*   str                [t |-> "str",  s |-> "abc"]                        *)
(*   list               [t |-> "list", xs |-> <<v1, v2>>]                  *)
(*   dict               [t |-> "dict", kv |-> << <<k1, v1>>, <<k2, v2>> >>]*)
(* A dict keeps its entries in insertion order, as Python's dict does.     *)
(* Strings are TLA+ strings (sequences of characters).  The character      *)
(* U+D800, which json.loads produces from the escape \ud800 and which      *)
(* UTF-8 cannot encode, is written "~".                                    *)
(***************************************************************************)
EXTENDS Integers, Sequences, FiniteSets, TLC

VARIABLES pc, arg, res, src, nodes, idx, master, files, found_any, report, log, master_file

vars == <<pc, arg, res, src, nodes, idx, master, files, found_any, report, log, master_file>>

(***************************************************************************)
(* Bounds of the model.                                                    *)
(***************************************************************************)
MaxVals == 2

MaxFields == 2

MaxParams == 2

MaxNodes == 2

(***************************************************************************)
(* Python values.                                                          *)
(***************************************************************************)
JNull == [t |-> "null"]

JBool(b) == [t |-> "bool", b |-> b]

JInt(n) == [t |-> "int", n |-> n]

JStr(s) == [t |-> "str", s |-> s]

JList(xs) == [t |-> "list", xs |-> xs]

JDict(kv) == [t |-> "dict", kv |-> kv]

IsStr(v) == v.t = "str"

IsList(v) == v.t = "list"

IsDict(v) == v.t = "dict"

\* bool(v)
Truthy(v) ==
  CASE v.t = "null" -> FALSE
    [] v.t = "bool" -> v.b
    [] v.t = "int"  -> v.n # 0
    [] v.t = "str"  -> v.s # ""
    [] v.t = "list" -> v.xs # << >>
    [] v.t = "dict" -> v.kv # << >>

\* a or b
Or(a, b) == IF Truthy(a) THEN a ELSE b

\* key in d
HasKey(d, k) == \E i \in 1..Len(d.kv) : d.kv[i][1] = k

\* d.get(k): the value, None when the key is absent
Get(d, k) ==
  IF HasKey(d, k) THEN d.kv[CHOOSE i \in 1..Len(d.kv) : d.kv[i][1] = k][2] ELSE JNull

\* equality of two keys of the parameters dict, which are Python values:
\* Python hashes 1 and True alike
KeyEq(a, b) ==
  \/ a = b
  \/ a = JInt(1) /\ b = JBool(TRUE)
  \/ a = JBool(TRUE) /\ b = JInt(1)

\* d[k] = v on a dict whose keys are Python values
SetItem(kv, k, v) ==
  IF \E i \in 1..Len(kv) : KeyEq(kv[i][1], k)
  THEN [i \in 1..Len(kv) |-> IF KeyEq(kv[i][1], k) THEN <<kv[i][1], v>> ELSE kv[i]]
  ELSE Append(kv, <<k, v>>)

\* d[k] = v on a dict whose keys are str
SetKey(kv, k, v) ==
  IF \E i \in 1..Len(kv) : kv[i][1] = k
  THEN [i \in 1..Len(kv) |-> IF kv[i][1] = k THEN <<k, v>> ELSE kv[i]]
  ELSE Append(kv, <<k, v>>)

Keys(kv) == [i \in 1..Len(kv) |-> kv[i][1]]

(***************************************************************************)
(* Strings.                                                                *)
(***************************************************************************)
Char(s, i) == SubSeq(s, i, i)

\* sub in s
Contains(sub, s) ==
  \E i \in 1..(Len(s) - Len(sub) + 1) : SubSeq(s, i, i + Len(sub) - 1) = sub

\* s.startswith(p)
StartsWith(s, p) == Len(s) >= Len(p) /\ SubSeq(s, 1, Len(p)) = p

UpperAlpha == "ABCDEFGHIJKLMNOPQRSTUVWXYZ"

LowerAlpha == "abcdefghijklmnopqrstuvwxyz"

LowerChar(c) ==
  IF \E i \in 1..Len(UpperAlpha) : Char(UpperAlpha, i) = c
  THEN Char(LowerAlpha, CHOOSE i \in 1..Len(UpperAlpha) : Char(UpperAlpha, i) = c)
  ELSE c

RECURSIVE Lower(_)
\* s.lower()
Lower(s) == IF s = "" THEN "" ELSE LowerChar(Char(s, 1)) \o Lower(SubSeq(s, 2, Len(s)))

RECURSIVE Join(_, _)
\* sep.join(parts)
Join(sep, parts) ==
  IF parts = << >> THEN ""
  ELSE IF Len(parts) = 1 THEN parts[1]
  ELSE parts[1] \o sep \o Join(sep, Tail(parts))

RECURSIVE EscapeJson(_)
\* the body of a JSON string literal: quote and backslash are escaped
EscapeJson(s) ==
  IF s = "" THEN ""
  ELSE LET c == Char(s, 1)
       IN (IF c = "\"" \/ c = "\\" THEN "\\" \o c ELSE c) \o EscapeJson(SubSeq(s, 2, Len(s)))

RECURSIVE Dumps(_)
\* json.dumps(v, ensure_ascii=False)
Dumps(v) ==
  CASE v.t = "null" -> "null"
    [] v.t = "bool" -> IF v.b THEN "true" ELSE "false"
    [] v.t = "int"  -> ToString(v.n)
    [] v.t = "str"  -> "\"" \o EscapeJson(v.s) \o "\""
    [] v.t = "list" -> "[" \o Join(", ", [i \in 1..Len(v.xs) |-> Dumps(v.xs[i])]) \o "]"
    [] v.t = "dict" ->
         "{" \o Join(", ", [i \in 1..Len(v.kv) |->
                  "\"" \o EscapeJson(v.kv[i][1]) \o "\": " \o Dumps(v.kv[i][2])]) \o "}"

RECURSIVE PyRepr(_)
\* repr(v)
PyRepr(v) ==
  CASE v.t = "null" -> "None"
    [] v.t = "bool" -> IF v.b THEN "True" ELSE "False"
    [] v.t = "int"  -> ToString(v.n)
    [] v.t = "str"  -> "'" \o v.s \o "'"
    [] v.t = "list" -> "[" \o Join(", ", [i \in 1..Len(v.xs) |-> PyRepr(v.xs[i])]) \o "]"
    [] v.t = "dict" ->
         "{" \o Join(", ", [i \in 1..Len(v.kv) |->
                  "'" \o v.kv[i][1] \o "': " \o PyRepr(v.kv[i][2])]) \o "}"

\* str(v), which is also what an f-string substitutes for {v}
PyStr(v) == IF v.t = "str" THEN v.s ELSE PyRepr(v)

(***************************************************************************)
(* Condition flattener.                                                    *)
(***************************************************************************)
\* mutant: a one-element list is rendered with IN like any other list
single_condition_expr_in(field, val) ==
  IF IsList(val)
  THEN field \o " IN " \o Dumps(val)
  ELSE IF IsStr(val) THEN field \o " == '" \o val.s \o "'"
       ELSE field \o " == " \o PyStr(val)

single_condition_expr(field, val) ==
  IF IsList(val)
  THEN IF Len(val.xs) = 1
       THEN LET v == val.xs[1]
            IN IF IsStr(v) THEN field \o " == '" \o v.s \o "'"
               ELSE field \o " == " \o PyStr(v)
       ELSE field \o " IN " \o Dumps(val)
  ELSE IF IsStr(val) THEN field \o " == '" \o val.s \o "'"
       ELSE field \o " == " \o PyStr(val)

RECURSIVE NestedConds(_, _)
\* the inner loop over a nested mapping: one condition per nested key
NestedConds(field, kv) ==
  IF kv = << >> THEN << >>
  ELSE <<single_condition_expr(field \o "." \o kv[1][1], kv[1][2])>>
         \o NestedConds(field, Tail(kv))

RECURSIVE ModeConds(_)
\* the loop over the fields of one mode: the list conds
ModeConds(kv) ==
  IF kv = << >> THEN << >>
  ELSE (IF IsDict(kv[1][2])
        THEN NestedConds(kv[1][1], kv[1][2].kv)
        ELSE <<single_condition_expr(kv[1][1], kv[1][2])>>)
         \o ModeConds(Tail(kv))

\* the body of the loop over ("show", "hide"): the rules one mode appends
ModeRules(display_options, mode, target) ==
  IF HasKey(display_options, mode) /\ IsDict(Get(display_options, mode))
  THEN LET conds == ModeConds(Get(display_options, mode).kv)
       IN IF conds # << >>
          THEN <<"IF " \o Join(" AND ", conds) \o " THEN "
                   \o (IF mode = "show" THEN "SHOW" ELSE "HIDE")
                   \o (IF Truthy(target) THEN " parameter '" \o PyStr(target) \o "'" ELSE "")>>
          ELSE << >>
  ELSE << >>

\* mutant: a mode with no conditions still emits a rule
display_options_to_rules_empty(display_options, target) ==
  IF ~IsDict(display_options) THEN << >>
  ELSE LET R(mode) ==
             IF HasKey(display_options, mode) /\ IsDict(Get(display_options, mode))
             THEN <<"IF " \o Join(" AND ", ModeConds(Get(display_options, mode).kv)) \o " THEN "
                      \o (IF mode = "show" THEN "SHOW" ELSE "HIDE")
                      \o (IF Truthy(target) THEN " parameter '" \o PyStr(target) \o "'" ELSE "")>>
             ELSE << >>
       IN R("show") \o R("hide")

display_options_to_rules(display_options, target) ==
  IF ~IsDict(display_options) THEN << >>
  ELSE ModeRules(display_options, "show", target) \o ModeRules(display_options, "hide", target)

(***************************************************************************)
(* Node locator.                                                           *)
(***************************************************************************)
RECURSIVE DictEntries(_)
\* [o for o in xs if isinstance(o, dict)]
DictEntries(xs) ==
  IF xs = << >> THEN << >>
  ELSE (IF IsDict(xs[1]) THEN <<xs[1]>> ELSE << >>) \o DictEntries(Tail(xs))

ContainerKeys == <<"nodes", "items", "resources", "elements">>

NodeLikeKeys == {"name", "displayOptions", "properties", "parameters", "credentials"}

\* mutant: the node-like fields are probed before the container keys
find_nodes_in_object_nodelike_first(obj) ==
  IF IsList(obj) THEN DictEntries(obj.xs)
  ELSE IF IsDict(obj)
  THEN IF \E k \in NodeLikeKeys : HasKey(obj, k) THEN <<obj>>
       ELSE IF \E i \in 1..Len(ContainerKeys) : IsList(Get(obj, ContainerKeys[i]))
       THEN LET i == CHOOSE j \in 1..Len(ContainerKeys) :
                       /\ IsList(Get(obj, ContainerKeys[j]))
                       /\ \A h \in 1..(j - 1) : ~IsList(Get(obj, ContainerKeys[h]))
            IN DictEntries(Get(obj, ContainerKeys[i]).xs)
       ELSE << >>
  ELSE << >>

find_nodes_in_object(obj) ==
  IF IsList(obj) THEN DictEntries(obj.xs)
  ELSE IF IsDict(obj)
  THEN IF \E i \in 1..Len(ContainerKeys) : IsList(Get(obj, ContainerKeys[i]))
       THEN LET i == CHOOSE j \in 1..Len(ContainerKeys) :
                       /\ IsList(Get(obj, ContainerKeys[j]))
                       /\ \A h \in 1..(j - 1) : ~IsList(Get(obj, ContainerKeys[h]))
            IN DictEntries(Get(obj, ContainerKeys[i]).xs)
       ELSE IF \E k \in NodeLikeKeys : HasKey(obj, k) THEN <<obj>>
       ELSE << >>
  ELSE << >>

(***************************************************************************)
(* Natural-language hints.  The hint texts of the source are Chinese; the  *)
(* model writes each as an ASCII tag.                                      *)
(***************************************************************************)
HintCollection == "<fixedCollection: nested fields, do not flatten>"

HintUrl == "<must include http:// or https://; expressions supported>"

HintMethod == "<REST: GET to query, POST to create, PUT/PATCH to update>"

HintBoolean == "<boolean: true or false>"

HintAuth == "<authentication related: keep out of public logs>"

\* a result of a call that may raise
Ok(v) == [ok |-> TRUE, v |-> v]

Raise(e) == [ok |-> FALSE, exc |-> e]

\* the hints of generate_ai_hint_for_param for the lowered type and name
HintText(ptype, name_lower, param) ==
  LET hints ==
        (IF ptype \in {"fixedcollection", "fixed_collection", "fixedCollection", "collection"}
         THEN <<HintCollection>> ELSE << >>)
        \o (IF Contains("url", name_lower) THEN <<HintUrl>> ELSE << >>)
        \o (IF name_lower = "method" \/ (ptype = "options" /\ Truthy(Get(param, "options")))
            THEN <<HintMethod>> ELSE << >>)
        \o (IF ptype = "boolean" \/ StartsWith(name_lower, "is") \/ StartsWith(name_lower, "has")
            THEN <<HintBoolean>> ELSE << >>)
        \o (IF Contains("token", name_lower) \/ Contains("auth", name_lower)
            THEN <<HintAuth>> ELSE << >>)
  IN IF hints = << >>
     THEN Ok(Or(Or(Get(param, "description"), Get(param, "note")), JStr("")))
     ELSE Ok(JStr(Join(" ", hints)))

\* generate_ai_hint_for_param(name, param); .lower() of a value that is not a
\* str raises AttributeError
generate_ai_hint_for_param(name, param) ==
  LET t == Or(Get(param, "type"), JStr(""))
      n == Or(name, JStr(""))
  IN IF ~IsStr(t) \/ ~IsStr(n) THEN Raise("AttributeError")
     ELSE HintText(Lower(t.s), Lower(n.s), param)

(***************************************************************************)
(* Parameter canonicalizer.                                                *)
(***************************************************************************)
\* a dict key must be hashable
Hashable(v) == ~IsList(v) /\ ~IsDict(v)

RECURSIVE PairsToDict(_, _)
\* dict(list): every element must be a sequence of length two; the model
\* covers elements that are scalars (not iterable, or the wrong length) and
\* two-element lists with a str key
PairsToDict(xs, acc) ==
  IF xs = << >> THEN Ok(acc)
  ELSE LET e == xs[1]
       IN IF e.t \in {"null", "bool", "int"} THEN Raise("TypeError")
          ELSE IF IsList(e) /\ Len(e.xs) = 2 /\ IsStr(e.xs[1])
          THEN PairsToDict(Tail(xs), SetKey(acc, e.xs[1].s, e.xs[2]))
          ELSE Raise("ValueError")

\* dict(param): the shallow copy taken by clean_parameter
DictOf(param) ==
  CASE param.t = "dict" -> Ok(param.kv)
    [] param.t \in {"null", "bool", "int"} -> Raise("TypeError")
    [] param.t = "str" -> IF param.s = "" THEN Ok(<< >>) ELSE Raise("ValueError")
    [] param.t = "list" -> PairsToDict(param.xs, << >>)

\* p.setdefault("name", name), done when name is truthy
SetDefaultName(p, name) ==
  IF Truthy(name) /\ ~HasKey(JDict(p), "name") THEN Append(p, <<"name", name>>) ELSE p

\* if generated: p["ai_hint"] = generated; g is the outcome of the generator
AttachHint(p, g) ==
  IF ~g.ok THEN g
  ELSE IF Truthy(g.v) THEN Ok(JDict(SetKey(p, "ai_hint", g.v)))
  ELSE Ok(JDict(p))

\* the "ensure ai_hint" step on the copy p
EnsureHint(p, name) ==
  IF ~Truthy(Get(JDict(p), "ai_hint"))
  THEN AttachHint(p, generate_ai_hint_for_param(Or(Get(JDict(p), "name"), name), JDict(p)))
  ELSE Ok(JDict(p))

clean_parameter(param, name) ==
  LET c == DictOf(param)
  IN IF ~c.ok THEN c ELSE EnsureHint(SetDefaultName(c.v, name), name)

NestedKeys == <<"options", "values", "fields", "properties", "collection">>

RECURSIVE collect_conditional_rules_from_params(_)
RECURSIVE CollectFrom(_, _)
\* the body of the loop of collect_conditional_rules_from_params for one
\* (key, val); key is a str for a dict source and None for a list source
CollectOne(key, val) ==
  IF ~IsDict(val) THEN << >>
  ELSE LET display == Or(Or(Get(val, "displayOptions"), Get(val, "display_options")), Get(val, "display"))
           param_name == Or(Get(val, "name"), key)
           ptype == Get(val, "type")
           nestedOf(i) == Get(val, NestedKeys[i])
           RECURSIVE Nested(_)
           Nested(i) ==
             IF i > Len(NestedKeys) THEN << >>
             ELSE (IF Truthy(nestedOf(i)) /\ (IsList(nestedOf(i)) \/ IsDict(nestedOf(i)))
                   THEN collect_conditional_rules_from_params(nestedOf(i)) ELSE << >>)
                  \o Nested(i + 1)
           optSource(opt) ==
             Or(Or(Or(Or(Get(opt, "values"), Get(opt, "options")), Get(opt, "fields")),
                   Get(opt, "properties")), JList(<< >>))
           RECURSIVE Opts(_)
           Opts(xs) ==
             IF xs = << >> THEN << >>
             ELSE (IF IsDict(xs[1])
                   THEN collect_conditional_rules_from_params(optSource(xs[1])) ELSE << >>)
                  \o Opts(Tail(xs))
       IN (IF Truthy(display) THEN display_options_to_rules(display, param_name) ELSE << >>)
          \o (IF Truthy(ptype) /\ Contains("collection", Lower(PyStr(ptype)))
              THEN Nested(1) ELSE << >>)
          \o (IF IsList(Get(val, "options")) THEN Opts(Get(val, "options").xs) ELSE << >>)

CollectFrom(isDict, entries) ==
  IF entries = << >> THEN << >>
  ELSE (IF isDict THEN CollectOne(JStr(entries[1][1]), entries[1][2])
        ELSE CollectOne(JNull, entries[1]))
       \o CollectFrom(isDict, Tail(entries))

collect_conditional_rules_from_params(params) ==
  IF IsDict(params) THEN CollectFrom(TRUE, params.kv)
  ELSE IF IsList(params) THEN CollectFrom(FALSE, params.xs)
  ELSE << >>

(***************************************************************************)
(* Node normalizer.                                                        *)
(***************************************************************************)
ParamSourceKeys ==
  <<"properties", "parameters", "options", "inputs", "parametersList", "fields",
    "attributes", "props", "params">>

RECURSIVE FirstTruthy(_, _, _)
\* node.get(k1) or node.get(k2) or ... : the first truthy value, else the last
FirstTruthy(node, keys, i) ==
  IF i = Len(keys) THEN Get(node, keys[i])
  ELSE Or(Get(node, keys[i]), FirstTruthy(node, keys, i + 1))

\* p.get("name") or p.get("key") or p.get("id")
ExplicitName(p) == Or(Or(Get(p, "name"), Get(p, "key")), Get(p, "id"))

RECURSIVE CleanDictParams(_, _)
\* params_out[pname] = c, then the rest of the loop over raw_params.items()
StoreDictParam(kv, acc, c) ==
  IF ~c.ok THEN c ELSE CleanDictParams(Tail(kv), SetItem(acc, JStr(kv[1][1]), c.v))

\* the loop over raw_params.items(); acc is params_out
CleanDictParams(kv, acc) ==
  IF kv = << >> THEN Ok(acc)
  ELSE StoreDictParam(kv, acc, clean_parameter(kv[1][2], JStr(kv[1][1])))

\* the name the list loop gives to fragment p when params_out is acc
ParamName(p, acc) ==
  IF Truthy(ExplicitName(p)) THEN ExplicitName(p)
  ELSE Or(Get(p, "label"), JStr("param_" \o ToString(Len(acc) + 1)))

RECURSIVE CleanListParams(_, _)
\* params_out[pname] = c, then the rest of the loop over the list
StoreListParam(xs, acc, pname, c) ==
  IF ~c.ok THEN c
  ELSE IF ~Hashable(pname) THEN Raise("TypeError")
  ELSE CleanListParams(Tail(xs), SetItem(acc, pname, c.v))

\* one mapping fragment of the list, named pname
CleanListParam(xs, acc, pname) == StoreListParam(xs, acc, pname, clean_parameter(xs[1], pname))

\* the loop over a list raw_params; acc is params_out
CleanListParams(xs, acc) ==
  IF xs = << >> THEN Ok(acc)
  ELSE IF ~IsDict(xs[1]) THEN CleanListParams(Tail(xs), acc)
  ELSE CleanListParam(xs, acc, ParamName(xs[1], acc))

RECURSIVE AssignedNames(_, _)
\* the successive values of pname in the list loop, one per mapping fragment
AssignedNames(xs, acc) ==
  IF xs = << >> THEN << >>
  ELSE IF ~IsDict(xs[1]) THEN AssignedNames(Tail(xs), acc)
  ELSE LET pname == ParamName(xs[1], acc)
       IN <<pname>> \o AssignedNames(Tail(xs), SetItem(acc, pname, JNull))

RECURSIVE ExplicitNames(_)
\* the list comprehension that builds required_sequence from a list
ExplicitNames(xs) ==
  IF xs = << >> THEN << >>
  ELSE (IF IsDict(xs[1]) /\ Truthy(ExplicitName(xs[1])) THEN <<ExplicitName(xs[1])>> ELSE << >>)
       \o ExplicitNames(Tail(xs))

RECURSIVE DedupeFrom(_, _)
DedupeFrom(rules, seen) ==
  IF rules = << >> THEN << >>
  ELSE IF rules[1] \in seen THEN DedupeFrom(Tail(rules), seen)
  ELSE <<rules[1]>> \o DedupeFrom(Tail(rules), seen \cup {rules[1]})

\* mutant: the rules are kept as collected
Dedupe_keep_all(rules) == rules

\* the loop that builds deduped_rules
Dedupe(rules) == DedupeFrom(rules, {})

\* the parameter source clean_node settles on
RawParams(node) == FirstTruthy(node, ParamSourceKeys, 1)

\* the list rules of clean_node before de-duplication
CollectedRules(node) ==
  LET node_display ==
        Or(Or(Get(node, "displayOptions"), Get(node, "display_options")), Get(node, "display"))
  IN (IF Truthy(node_display)
      THEN display_options_to_rules(node_display, Get(node, "name")) ELSE << >>)
     \o collect_conditional_rules_from_params(Or(RawParams(node), JList(<< >>)))

\* params_out for the parameter source raw_params
CanonicalParams(raw_params) ==
  IF IsDict(raw_params) THEN CleanDictParams(raw_params.kv, << >>)
  ELSE IF IsList(raw_params) THEN CleanListParams(raw_params.xs, << >>)
  ELSE Ok(<< >>)

\* the record clean_node returns once params_out is built; a key of cleaned
\* that the source leaves unset (workflow_json_snippet) is held as None
Cleaned(node, raw_params, params) ==
  IF ~params.ok THEN params
  ELSE LET node_id == Or(Or(Or(Get(node, "node_id"), Get(node, "id")), Get(node, "name")),
                         Get(node, "type"))
       IN Ok([node_id |-> node_id,
              name |-> Or(Get(node, "name"), node_id),
              version |-> Or(Or(Get(node, "version"), Get(node, "versionId")), JInt(1)),
              semantic_context |->
                Or(Or(Or(Get(node, "description"), Get(node, "summary")), Get(node, "note")),
                   JStr("")),
              parameters |-> params.v,
              required_sequence |->
                IF IsList(raw_params) THEN ExplicitNames(raw_params.xs) ELSE Keys(params.v),
              conditional_rules |-> Dedupe(CollectedRules(node)),
              workflow_json_snippet |->
                IF Truthy(Get(node, "workflow_json_snippet"))
                THEN Get(node, "workflow_json_snippet") ELSE JNull])

CleanWith(node, raw_params) == Cleaned(node, raw_params, CanonicalParams(raw_params))

\* clean_node(node): Ok(cleaned) or the exception it raises
clean_node(node) == CleanWith(node, RawParams(node))

(***************************************************************************)
(* Batch driver: process_all_sources.                                      *)
(***************************************************************************)
Surrogate == "~"

UnsafeChars == {"\\", "/", ":", "*", "?", "\"", "<", ">", "|"}

RECURSIVE SubUnsafe(_, _)
\* re.sub(r"[\\/:*?\"<>|]+", "_", name): each run of unsafe characters
\* becomes one underscore; inRun says the previous character was unsafe
SubUnsafe(s, inRun) ==
  IF s = "" THEN ""
  ELSE IF Char(s, 1) \in UnsafeChars
  THEN (IF inRun THEN "" ELSE "_") \o SubUnsafe(SubSeq(s, 2, Len(s)), TRUE)
  ELSE Char(s, 1) \o SubUnsafe(SubSeq(s, 2, Len(s)), FALSE)

RECURSIVE ReplaceSpaces(_)
\* name.replace(" ", "_")
ReplaceSpaces(s) ==
  IF s = "" THEN ""
  ELSE (IF Char(s, 1) = " " THEN "_" ELSE Char(s, 1)) \o ReplaceSpaces(SubSeq(s, 2, Len(s)))

\* sanitize_filename(name); re.sub raises TypeError on a value that is not a str
sanitize_filename(name) ==
  LET n == Or(name, JStr("unnamed_node"))
  IN IF ~IsStr(n) THEN Raise("TypeError")
     ELSE Ok(ReplaceSpaces(SubUnsafe(n.s, FALSE)))

\* the key of a dict as json.dumps writes it
KeyText(k) == IF IsStr(k) THEN k.s ELSE Dumps(k)

\* cleaned as the value json.dumps serializes
CleanedJson(c) ==
  JDict(<< <<"node_id", c.node_id>>, <<"name", c.name>>, <<"version", c.version>>,
           <<"semantic_context", c.semantic_context>>,
           <<"parameters",
             JDict([i \in 1..Len(c.parameters) |->
                      <<KeyText(c.parameters[i][1]), c.parameters[i][2]>>])>>,
           <<"configuration_logic",
             JDict(<< <<"required_sequence", JList(c.required_sequence)>>,
                      <<"conditional_rules",
                        JList([i \in 1..Len(c.conditional_rules) |->
                                 JStr(c.conditional_rules[i])])>> >>)>> >>
        \o (IF Truthy(c.workflow_json_snippet)
            THEN << <<"workflow_json_snippet", c.workflow_json_snippet>> >> ELSE << >>))

\* str.encode("utf-8") raises UnicodeEncodeError on a lone surrogate
Encodable(text) == ~Contains(Surrogate, text)

\* mutant: a mapping in which no nodes were located is not taken as a node
ResolveNodes_no_fallback(data) ==
  IF IsList(data) THEN DictEntries(data.xs) ELSE find_nodes_in_object(data)

\* the records process_all_sources iterates over
ResolveNodes(data) ==
  IF IsList(data) THEN DictEntries(data.xs)
  ELSE LET found == find_nodes_in_object(data)
       IN IF found = << >> /\ IsDict(data) THEN <<data>> ELSE found

\* an iteration that raised before it opened a file
Failed(fs) == [ok |-> FALSE, fs |-> fs, opened |-> {}]

\* out_path.write_text(json.dumps(cleaned, ...)): write_text opens the file for
\* writing (creating or truncating it) and then encodes the text; a file is
\* <<>> when empty and <<cleaned>> when it holds the record
WriteText(out_path, cleaned, fs) ==
  IF ~Encodable(out_path) THEN Failed(fs)
  ELSE IF ~Encodable(Dumps(CleanedJson(cleaned)))
  THEN [ok |-> FALSE, fs |-> (out_path :> << >>) @@ fs, opened |-> {out_path}]
  ELSE [ok |-> TRUE, cleaned |-> cleaned, fs |-> (out_path :> <<cleaned>>) @@ fs,
        opened |-> {out_path}]

\* the write of cleaned under the sanitized name n
WriteAs(n, cleaned, fs) ==
  IF ~n.ok THEN Failed(fs) ELSE WriteText(n.v \o ".json", cleaned, fs)

\* the try block once clean_node has returned or raised c
WriteCleaned(c, i, fs) ==
  IF ~c.ok THEN Failed(fs)
  ELSE WriteAs(sanitize_filename(Or(Or(c.v.name, c.v.node_id), JStr("node_" \o ToString(i)))),
               c.v, fs)

\* the body of the try block for record node at index i, the output
\* directory holding fs: whether it completed, the record appended to master,
\* the directory afterwards and the file it opened
Iteration(node, i, fs) == WriteCleaned(clean_node(node), i, fs)

(***************************************************************************)
(* Inputs of the model.                                                    *)
(***************************************************************************)
\* all sequences over S of length at most n
SeqsUpTo(S, n) == UNION {[1..k -> S] : k \in 0..n}

\* a dict entry that may be absent: opt is <<>> or <<value>>
Entry(k, opt) == IF opt = << >> THEN << >> ELSE << <<k, opt[1]>> >>

Absent == << >>

Present(S) == {<<v>> : v \in S}

\* --- visibility specifications ---
ValuePool == <<JStr("create"), JStr("update"), JStr("delete"), JStr("get")>>

FieldNames == <<"resource", "operation", "mode", "kind">>

Scalars == {JStr("create"), JInt(1), JBool(TRUE), JNull}

ValLists == {JList(xs) : xs \in SeqsUpTo({JStr("create"), JInt(1)}, MaxVals)}

SubLeaves == {JStr("create")} \cup {JList(SubSeq(ValuePool, 1, k)) : k \in 1..MaxVals}

Leaves == Scalars \cup ValLists \cup SubLeaves

\* mappings of at most n entries whose i-th key is names[i]; the first value is
\* drawn from First, the others from Rest
MapsOver(names, First, Rest, n) ==
  {JDict(<< >>)}
    \cup UNION {{JDict([i \in 1..k |-> <<names[i], IF i = 1 THEN f ELSE r[i]>>]) :
                   f \in First, r \in [2..k -> Rest]} : k \in 1..n}

NestedMaps ==
  MapsOver(SubSeq(FieldNames, 2, Len(FieldNames)), SubLeaves, {JStr("create")}, MaxFields)

FieldVals == Leaves \cup NestedMaps

ModeMaps == MapsOver(FieldNames, FieldVals, {JStr("create"), JDict(<< >>)}, MaxFields)

SmallModeVals ==
  {JStr("x")} \cup MapsOver(FieldNames, {JInt(1), JDict(<< >>)}, {}, 1)

RichModeVals == {JInt(1), JList(<< >>)} \cup ModeMaps

DisplaySpecs ==
  {JNull, JStr("show"), JList(<< >>)}
    \cup {JDict(Entry("show", s) \o Entry("hide", h)) :
            s \in {Absent} \cup Present(RichModeVals), h \in {Absent} \cup Present(SmallModeVals)}
    \cup {JDict(Entry("other", <<JInt(1)>>) \o Entry("hide", h) \o Entry("show", s)) :
            s \in {Absent} \cup Present(SmallModeVals), h \in {Absent} \cup Present(RichModeVals)}

RuleInputs == [display_options : DisplaySpecs, target : {JNull, JStr("fields")}]

\* --- documents handed to the node locator ---
NodeA == JDict(<< <<"name", JStr("A")>> >>)

NodeB == JDict(<< <<"id", JStr("B")>>, <<"parameters", JList(<< >>)>> >>)

EntryPool == {NodeA, NodeB, JInt(1), JStr("x")}

EntryLists == {JList(xs) : xs \in SeqsUpTo(EntryPool, MaxNodes)}

ContainerVals ==
  {Absent} \cup Present({JInt(1), JList(<< >>), JList(<<NodeA>>), JList(<<JInt(1), NodeB>>)})

NodeLikeEntries ==
  {<< >>, << <<"name", JStr("N")>> >>, << <<"credentials", JNull>> >>,
   << <<"foo", JInt(1)>> >>, << <<"displayOptions", JDict(<< >>)>>, <<"foo", JInt(1)>> >>}

LocatorInputs ==
  {JNull, JInt(5), JStr("nodes"), JBool(TRUE)}
    \cup EntryLists
    \cup {JDict(nl \o Entry("elements", e) \o Entry("nodes", n) \o Entry("resources", r)
                   \o Entry("items", i)) :
            nl \in NodeLikeEntries, e \in ContainerVals, n \in ContainerVals,
            r \in ContainerVals, i \in ContainerVals}

\* --- raw nodes handed to clean_node ---
ShowResourceA == JDict(<< <<"show", JDict(<< <<"resource", JList(<<JStr("a")>>)>> >>)>> >>)

FieldsParam == JDict(<< <<"name", JStr("fields")>>, <<"displayOptions", ShowResourceA>> >>)

FragPool ==
  {JDict(<< <<"name", JStr("token")>>, <<"type", JStr("string")>> >>),
   JDict(<< <<"name", JStr("param_2")>>, <<"type", JStr("string")>> >>),
   JDict(<< <<"type", JStr("boolean")>> >>),
   JDict(<< <<"label", JStr("Token")>> >>),
   JDict(<< <<"key", JStr("isActive")>>, <<"description", JStr("d")>> >>),
   FieldsParam,
   JDict(<< <<"name", JStr("group")>>, <<"type", JStr("fixedCollection")>>,
            <<"display", JDict(<< <<"hide", JDict(<< <<"mode", JInt(1)>> >>)>> >>)>>,
            <<"options", JList(<<JDict(<< <<"values", JList(<<FieldsParam>>)>> >>)>>)>> >>),
   JDict(<< <<"name", JStr("url")>>, <<"type", JInt(5)>> >>),
   JInt(5),
   JNull}

RawParamSources ==
  {JList(xs) : xs \in SeqsUpTo(FragPool, MaxParams)}
    \cup {JDict([i \in 1..Len(xs) |-> <<FieldNames[i], xs[i]>>]) :
            xs \in SeqsUpTo(FragPool, MaxParams)}
    \cup {JStr("x"), JInt(3)}

CleanInputs ==
  {JDict(Entry("name", n) \o Entry("displayOptions", d) \o << <<k, p>> >>) :
     n \in {Absent, <<JStr("Slack")>>}, d \in {Absent, <<ShowResourceA>>},
     k \in {"parameters", "properties"}, p \in RawParamSources}

\* --- source files of a run ---
NodePool ==
  {NodeA,
   JDict(<< <<"name", JStr("A")>>, <<"description", JStr(Surrogate)>> >>),
   JDict(<< <<"name", JStr("a b")>> >>),
   JDict(<< <<"name", JStr("a_b")>> >>),
   JDict(<< <<"name", JStr("N")>>, <<"parameters", JDict(<< <<"a", JInt(5)>> >>)>> >>),
   JDict(<< <<"foo", JInt(1)>> >>),
   JDict(<< <<"id", JInt(5)>> >>),
   JDict(<< <<"name", JStr(Surrogate \o "/x")>> >>),
   JDict(<< <<"name", JStr("Slack")>>,
            <<"parameters", JList(<<JDict(<< <<"name", JStr("token")>>,
                                            <<"type", JStr("string")>> >>)>>)>> >>),
   JInt(1)}

NodeLists == {JList(xs) : xs \in SeqsUpTo(NodePool, MaxNodes)}

ShortNodeLists == {JList(xs) : xs \in SeqsUpTo(NodePool, MaxNodes - 1)}

Documents ==
  NodeLists
    \cup {x \in NodePool : IsDict(x)}
    \cup {JDict(<< <<k, l>> >>) : k \in {"nodes", "elements", "resources"}, l \in ShortNodeLists}
    \cup {JDict(<< <<"name", JStr("Q")>>, <<"items", l>> >>) : l \in ShortNodeLists}
    \cup {JNull, JInt(5), JStr("x")}

Sources ==
  {[kind |-> "missing"], [kind |-> "unparsable"]}
    \cup {[kind |-> "json", data |-> d] : d \in Documents}

(***************************************************************************)
(* process_all_sources as a state machine: one step loads the source, one  *)
(* step runs each iteration of the loop, one step writes the master file   *)
(* and reports.                                                            *)
(*   src         the source file                                           *)
(*   nodes, idx  the records iterated over and the index of the next one   *)
(*   master      the aggregate list                                        *)
(*   files       the output directory: file name -> content                *)
(*   master_file <<>> until the master file is written, then <<master>>    *)
(*   report      the line printed at the end                               *)
(*   log         per iteration: whether it completed, the per-node file it *)
(*               opened, and whether that file existed before              *)
(***************************************************************************)
NoCall == arg = JNull /\ res = JNull

Init ==
  /\ pc = "start"
  /\ src \in Sources
  /\ nodes = << >>
  /\ idx = 1
  /\ master = << >>
  /\ files = << >>
  /\ found_any = FALSE
  /\ report = ""
  /\ log = << >>
  /\ master_file = << >>
  /\ NoCall

SourceMissing ==
  /\ pc = "start"
  /\ src.kind = "missing"
  /\ pc' = "done"
  /\ report' = "Source file not found."
  /\ UNCHANGED <<arg, res, src, nodes, idx, master, files, found_any, log, master_file>>

LoadFailed ==
  /\ pc = "start"
  /\ src.kind = "unparsable"
  /\ pc' = "done"
  /\ report' = "Failed to load source file"
  /\ UNCHANGED <<arg, res, src, nodes, idx, master, files, found_any, log, master_file>>

Load ==
  /\ pc = "start"
  /\ src.kind = "json"
  /\ nodes' = ResolveNodes(src.data)
  /\ pc' = "loop"
  /\ UNCHANGED <<arg, res, src, idx, master, files, found_any, report, log, master_file>>

ProcessNode ==
  /\ pc = "loop"
  /\ idx <= Len(nodes)
  /\ \E it \in {Iteration(nodes[idx], idx, files)} :
        /\ files' = it.fs
        /\ master' = IF it.ok THEN Append(master, it.cleaned) ELSE master
        /\ found_any' = (found_any \/ it.ok)
        /\ log' = Append(log, [ok |-> it.ok, opened |-> it.opened,
                               existed |-> it.opened \subseteq DOMAIN files /\ it.opened # {}])
  /\ idx' = idx + 1
  /\ UNCHANGED <<pc, arg, res, src, nodes, report, master_file>>

Finish ==
  /\ pc = "loop"
  /\ idx > Len(nodes)
  /\ master_file' = <<master>>
  /\ report' = IF found_any THEN "Processed " \o ToString(Len(master)) \o " nodes."
               ELSE "No nodes were found in source files."
  /\ pc' = "done"
  /\ UNCHANGED <<arg, res, src, nodes, idx, master, files, found_any, log>>

Next == SourceMissing \/ LoadFailed \/ Load \/ ProcessNode \/ Finish

Spec == Init /\ [][Next]_vars

(***************************************************************************)
(* The pure functions, each applied to every input of its set.             *)
(***************************************************************************)
NoRun ==
  /\ src = [kind |-> "none"]
  /\ nodes = << >>
  /\ idx = 1
  /\ master = << >>
  /\ files = << >>
  /\ found_any = FALSE
  /\ report = ""
  /\ log = << >>
  /\ master_file = << >>

runVars == <<src, nodes, idx, master, files, found_any, report, log, master_file>>

InitRules == pc = "call" /\ arg \in RuleInputs /\ res = JNull /\ NoRun

CallDisplayOptionsToRules ==
  /\ pc = "call"
  /\ res' = display_options_to_rules(arg.display_options, arg.target)
  /\ pc' = "return"
  /\ UNCHANGED <<arg, runVars>>

NextRules == CallDisplayOptionsToRules

SpecRules == InitRules /\ [][NextRules]_vars

InitLocator == pc = "call" /\ arg \in LocatorInputs /\ res = JNull /\ NoRun

CallFindNodesInObject ==
  /\ pc = "call"
  /\ res' = find_nodes_in_object(arg)
  /\ pc' = "return"
  /\ UNCHANGED <<arg, runVars>>

NextLocator == CallFindNodesInObject

SpecLocator == InitLocator /\ [][NextLocator]_vars

InitClean == pc = "call" /\ arg \in CleanInputs /\ res = JNull /\ NoRun

CallCleanNode ==
  /\ pc = "call"
  /\ res' = clean_node(arg)
  /\ pc' = "return"
  /\ UNCHANGED <<arg, runVars>>

NextClean == CallCleanNode

SpecClean == InitClean /\ [][NextClean]_vars

(***************************************************************************)
(* Properties of process_all_sources (checked under Spec).                 *)
(***************************************************************************)
RunDone == pc = "done" /\ src.kind = "json"

FooDocument == JDict(<< <<"foo", JInt(1)>> >>)

\* a mapping in which the locator recognizes no node shape
NoNodeShape(d) ==
  /\ IsDict(d)
  /\ \A k \in {"nodes", "items", "resources", "elements"} : ~IsList(Get(d, k))
  /\ \A k \in {"name", "displayOptions", "properties", "parameters", "credentials"} : ~HasKey(d, k)

\* the iterations of the loop that completed
Succeeded == {i \in 1..Len(log) : log[i].ok}

\* C1: an exception raised while normalizing or writing one record is caught:
\* every record is attempted, a record whose iteration failed is not in master
\* and its iteration wrote no per-node file, and master holds one record per
\* iteration that succeeded.
C1_FailedRecordLeavesNoOutput ==
  /\ RunDone => Len(log) = Len(nodes) /\ Len(master) = Cardinality(Succeeded)
  /\ \A i \in 1..Len(log) : ~log[i].ok => log[i].opened = {}

C4_OneFilePerProcessedNode ==
  RunDone =>
     /\ Cardinality(UNION {log[i].opened : i \in Succeeded}) = Len(master)
     /\ \A i \in Succeeded : ~log[i].existed

(***************************************************************************)
(* Properties of clean_node (checked under SpecClean).                     *)
(***************************************************************************)
Returned == pc = "return"

\* fragment p carries none of the fields a name is derived from
Nameless(p) == \A k \in {"name", "key", "id", "label"} : ~HasKey(p, k)

\* C3: in a list of parameters, a fragment with no name, key, id or label
\* gets a placeholder name that differs from the name of every other
\* parameter of the list, and the parameters mapping has one entry per
\* mapping-shaped fragment that has such a placeholder or a name of its own.
C3_PlaceholderNamesUnique ==
  (Returned /\ IsList(RawParams(arg))) =>
     LET frags == DictEntries(RawParams(arg).xs)
         names == AssignedNames(RawParams(arg).xs, << >>)
     IN \A i \in 1..Len(frags) :
          Nameless(frags[i]) =>
            /\ \A j \in 1..Len(frags) : j # i => names[j] # names[i]
            /\ res.ok => \E e \in 1..Len(res.v.parameters) :
                            /\ res.v.parameters[e][1] = names[i]
                            /\ Get(res.v.parameters[e][2], "name") = names[i]

\* the fragments the claim about malformed input covers: values that are not
\* mappings, and mappings whose type and naming fields are absent or text
Tolerated(p) ==
  IsDict(p) => \A k \in {"type", "name", "key", "id", "label"} :
                  HasKey(p, k) => IsStr(Get(p, k))

\* C5: clean_node does not raise on malformed fragments: for a parameter
\* source that is a list or a mapping, whose entries may be values that are
\* not mappings or mappings lacking type, default or name, it returns a node.
C5_CleanNodeNeverRaises ==
  (/\ Returned
   /\ \/ IsList(RawParams(arg)) /\ \A i \in 1..Len(RawParams(arg).xs) :
                                      Tolerated(RawParams(arg).xs[i])
      \/ IsDict(RawParams(arg)) /\ \A i \in 1..Len(RawParams(arg).kv) :
                                      Tolerated(RawParams(arg).kv[i][2]))
    => res.ok

\* the index of the first occurrence of r in rules
FirstAt(rules, r) == CHOOSE i \in 1..Len(rules) :
                       rules[i] = r /\ \A h \in 1..(i - 1) : rules[h] # r

FieldsRule == "IF resource == 'a' THEN SHOW parameter 'fields'"

\* C6: conditional_rules holds no rule twice, holds every rule the node-level
\* and the parameter-level sources produce, and orders them by their first
\* occurrence in the list of node-level rules followed by parameter-level
\* rules; the rule of the parameter 'fields' appears once however many
\* parameter-level sources produce it.
C6_RulesDeduplicatedInOrder ==
  (Returned /\ res.ok) =>
     LET all == CollectedRules(arg)
         out == res.v.conditional_rules
     IN /\ \A i, j \in 1..Len(out) : i # j => out[i] # out[j]
        /\ {out[i] : i \in 1..Len(out)} = {all[i] : i \in 1..Len(all)}
        /\ \A i, j \in 1..Len(out) : i < j => FirstAt(all, out[i]) < FirstAt(all, out[j])
        /\ (IsList(RawParams(arg))
             /\ \E i \in 1..Len(RawParams(arg).xs) : RawParams(arg).xs[i] = FieldsParam)
             => Cardinality({i \in 1..Len(out) : out[i] = FieldsRule}) = 1

C6_Witness ==
  /\ Returned
  /\ res.ok
  /\ Len(res.v.conditional_rules) = 2
  /\ Len(CollectedRules(arg)) = 3
  /\ res.v.conditional_rules[1] = FieldsRule
  /\ CollectedRules(arg)[3] = FieldsRule

\* C7: required_sequence is the ordered list of the node's parameter names:
\* for a list source it lists the parameters of the parameters mapping in
\* declaration order, otherwise it is the key order of that mapping.
C7_SequenceListsParameters ==
  (Returned /\ res.ok) => res.v.required_sequence = Keys(res.v.parameters)

(***************************************************************************)
(* Properties of display_options_to_rules (checked under SpecRules).       *)
(***************************************************************************)
\* the rendering of one accepted value: text in single quotes, any other
\* value as its literal
Literal(v) == IF IsStr(v) THEN "'" \o v.s \o "'" ELSE PyStr(v)

\* rule r has cond as one of its conjoined conditions
HasCond(r, cond) ==
  \E pre \in {"IF ", " AND "}, post \in {" AND ", " THEN "} : Contains(pre \o cond \o post, r)

\* rule r has a condition on path that starts with the operator op
HasOp(r, path, op) ==
  \E pre \in {"IF ", " AND "} : Contains(pre \o path \o op, r)

\* the (path, accepted values) pairs of one mode: a field, or the keys of a
\* field holding a nested mapping with the dot-joined path
PathsOf(m) ==
  {<<m.kv[i][1], m.kv[i][2]>> : i \in {h \in 1..Len(m.kv) : ~IsDict(m.kv[h][2])}}
    \cup UNION {{<<m.kv[i][1] \o "." \o m.kv[i][2].kv[j][1], m.kv[i][2].kv[j][2]>> :
                   j \in 1..Len(m.kv[i][2].kv)} :
                i \in {h \in 1..Len(m.kv) : IsDict(m.kv[h][2])}}

\* the rule emitted for a mode, if any
RulesFor(mode) ==
  {r \in {res[i] : i \in 1..Len(res)} :
     Contains(" THEN " \o (IF mode = "show" THEN "SHOW" ELSE "HIDE"), r)}

ScenarioInput ==
  [display_options |->
     JDict(<< <<"show", JDict(<< <<"resource",
              JDict(<< <<"operation", JList(<<JStr("create"), JStr("update")>>)>> >>)>> >>)>> >>),
   target |-> JStr("fields")]

ScenarioRule == "IF resource.operation IN [\"create\", \"update\"] THEN SHOW parameter 'fields'"

\* C8: in every rendered rule a field (or nested key) with exactly one
\* accepted value, a scalar or a one-element list, is rendered `path == value`
\* and one with several accepted values `path IN <literal list>`; the nested
\* show specification of the scenario renders as ScenarioRule.
C8_EqualityOrMembership ==
  Returned =>
     /\ IsDict(arg.display_options) =>
          \A mode \in {"show", "hide"} :
            IsDict(Get(arg.display_options, mode)) =>
              \A pv \in PathsOf(Get(arg.display_options, mode)) :
                /\ ~IsList(pv[2]) /\ ~IsDict(pv[2]) =>
                     \E r \in RulesFor(mode) :
                        HasCond(r, pv[1] \o " == " \o Literal(pv[2])) /\ ~HasOp(r, pv[1], " IN ")
                /\ IsList(pv[2]) /\ Len(pv[2].xs) = 1 =>
                     \E r \in RulesFor(mode) :
                        HasCond(r, pv[1] \o " == " \o Literal(pv[2].xs[1])) /\ ~HasOp(r, pv[1], " IN ")
                /\ IsList(pv[2]) /\ Len(pv[2].xs) > 1 =>
                     \E r \in RulesFor(mode) :
                        HasCond(r, pv[1] \o " IN " \o Dumps(pv[2])) /\ ~HasOp(r, pv[1], " == ")
     /\ arg = ScenarioInput => res = <<ScenarioRule>>

C8_Witness == Returned /\ arg = ScenarioInput /\ res = <<ScenarioRule>>

\* mode is present as a mapping with at least one field
NonEmptyMode(d, mode) ==
  IsDict(d) /\ IsDict(Get(d, mode)) /\ Get(d, mode).kv # << >>

\* mode is present as a mapping with a field that is not an empty nested mapping
YieldsCondition(d, mode) ==
  /\ NonEmptyMode(d, mode)
  /\ \E i \in 1..Len(Get(d, mode).kv) : Get(d, mode).kv[i][2] # JDict(<< >>)

\* C9 as stated: a rule is emitted for a mode only when the mode is present
\* as a mapping with at least one field; anything else contributes no rule;
\* when both modes are such mappings the result is exactly two rules, the
\* SHOW rule before the HIDE rule.
C9_TwoRulesWhenBothModesPresent ==
  Returned =>
     LET d == arg.display_options
     IN /\ \A mode \in {"show", "hide"} : RulesFor(mode) # {} => NonEmptyMode(d, mode)
        /\ (NonEmptyMode(d, "show") /\ NonEmptyMode(d, "hide")) =>
             /\ Len(res) = 2
             /\ res[1] \in RulesFor("show")
             /\ res[2] \in RulesFor("hide")

\* C9 amended: a mode contributes a rule exactly when it is present as a
\* mapping with at least one field that is not an empty nested mapping;
\* anything else contributes no rule, and when both modes are such mappings
\* the result is exactly two rules, the SHOW rule before the HIDE rule.
C9_RulePerModeYieldingCondition ==
  Returned =>
     LET d == arg.display_options
         n(mode) == IF YieldsCondition(d, mode) THEN 1 ELSE 0
     IN /\ Len(res) = n("show") + n("hide")
        /\ \A mode \in {"show", "hide"} :
             Cardinality(RulesFor(mode)) = n(mode)
        /\ (YieldsCondition(d, "show") /\ YieldsCondition(d, "hide")) =>
             res[1] \in RulesFor("show") /\ res[2] \in RulesFor("hide")

C9_Witness ==
  /\ Returned
  /\ YieldsCondition(arg.display_options, "show")
  /\ YieldsCondition(arg.display_options, "hide")
  /\ Len(res) = 2
  /\ Contains(" THEN SHOW", res[1])
  /\ Contains(" THEN HIDE", res[2])

(***************************************************************************)
(* Properties of find_nodes_in_object (checked under SpecLocator).         *)
(***************************************************************************)
ClaimedContainerOrder == <<"nodes", "items", "resources", "elements">>

\* C10: a list yields its mapping entries in order; a mapping yields the
\* mapping entries of the first of nodes, items, resources, elements that
\* holds a list, whatever else it holds; failing that a mapping with any of
\* name, displayOptions, properties, parameters, credentials is returned as
\* the only element; every other value yields the empty list.
C10_LocatorPrecedence ==
  Returned =>
     /\ IsList(arg) => res = SelectSeq(arg.xs, IsDict)
     /\ IsDict(arg) =>
          /\ \A i \in 1..Len(ClaimedContainerOrder) :
               (/\ IsList(Get(arg, ClaimedContainerOrder[i]))
                /\ \A h \in 1..(i - 1) : ~IsList(Get(arg, ClaimedContainerOrder[h])))
                 => res = SelectSeq(Get(arg, ClaimedContainerOrder[i]).xs, IsDict)
          /\ (\A i \in 1..Len(ClaimedContainerOrder) : ~IsList(Get(arg, ClaimedContainerOrder[i])))
                 => res = IF \E k \in {"name", "displayOptions", "properties", "parameters",
                                       "credentials"} : HasKey(arg, k)
                          THEN <<arg>> ELSE << >>
     /\ ~IsList(arg) /\ ~IsDict(arg) => res = << >>

C10_Witness ==
  /\ Returned
  /\ IsDict(arg)
  /\ HasKey(arg, "name")
  /\ HasKey(arg, "nodes") /\ ~IsList(Get(arg, "nodes"))
  /\ IsList(Get(arg, "items"))
  /\ res = <<NodeB>>

====
